---- MODULE Spec2Model ----
(***************************************************************************)
(* Model of the speedscope analysers of Atomic.Net:                        *)
(*   src/.github/agents/tools/analyze_speedscope.py   (the "tree" variant) *)
(*   src/profiling-results/analyze_speedscope.py      (the "report" one)   *)
(*                                                                         *)
(* Spec is the run of a program on an event stream: the three reduction    *)
(* loops, then main of the tree variant.  RenderSpec applies the two       *)
(* renderers, each twice, to call graphs drawn from a bounded family.      *)
(* ReportSpec applies format_report to drawn ranked lists.                 *)
(*                                                                         *)
(* Python dicts keep insertion order, and both renderers iterate and       *)
(* stable-sort them, so a dict is modelled as a sequence of <<key, value>> *)
(* pairs with distinct keys.  Timestamps and durations are integers; the   *)
(* rounding of Python floats is outside the model.                         *)
(***************************************************************************)
EXTENDS Integers, Sequences, FiniteSets, TLC

\* ------------------------------------------------------------------ bounds
MaxEvents == 4      \* events of a reduced stream
MaxEdges == 3       \* edges of a drawn call graph
MaxRanked == 11     \* entries of a drawn ranked list
\* The interpreter's recursion limit (sys.getrecursionlimit(), 1000 by default),
\* scaled to the graphs of the model: more nested calls raise RecursionError.
MaxBalanced == 6                \* events of a drawn balanced stream
RecursionLimit == 6

\* -------------------------------------------------------------- input sets
Frames == 0 .. 1                \* frame ids of the events
Times == 0 .. 1                 \* timestamps of the events
EventSet == [type : {"O", "C"}, frame : Frames, at : Times]
Nodes == 0 .. 2                 \* frame ids of a drawn call graph
Weights == 1 .. 2               \* its edge durations and node times
TotalTimes == {0, 2}            \* total_time arguments
MinPcts == {0, 75}              \* min_pct arguments
MaxDepths == -1 .. 2            \* max_depth arguments
\* The drawn trees and node tables are the same under every renaming of the
\* nodes (but for the node without a name, which is the last), so print_tree is
\* started at node 0 only.
Roots == {0}
TopNs == {0, 1, 2, 11, 50}      \* top_n arguments

\* best_root = None
None == -1

Range(s) == {s[i] : i \in DOMAIN s}
Max(S) == CHOOSE x \in S : \A y \in S : y <= x

\* ------------------------------------------------------- insertion-ordered dicts
Keys(d) == {d[i][1] : i \in DOMAIN d}
Has(d, k) == k \in Keys(d)
IndexOf(d, k) == CHOOSE i \in DOMAIN d : d[i][1] = k
Get(d, k, default) == IF Has(d, k) THEN d[IndexOf(d, k)][2] ELSE default
Put(d, k, v) ==
    IF Has(d, k) THEN [d EXCEPT ![IndexOf(d, k)] = <<k, v>>]
    ELSE Append(d, <<k, v>>)

\* d[k] on a defaultdict: a missing key is inserted with the default.
AfterIndexing(d, k, default) == IF Has(d, k) THEN d ELSE Append(d, <<k, default>>)

\* d.get(k, default) leaves d as it is, whether it is a defaultdict or not.
AfterGet(d, k, default) == d

\* The dict after the look-ups of the keys of S, in ascending order.
RECURSIVE AfterLookups(_, _, _)
AfterLookups(d, S, default) ==
    IF S = {} THEN d
    ELSE LET k == CHOOSE x \in S : \A y \in S : x <= y
         IN  AfterLookups(AfterGet(d, k, default), S \ {k}, default)

RECURSIVE SumValues(_)
SumValues(d) == IF d = <<>> THEN 0 ELSE d[1][2] + SumValues(Tail(d))

Front(s) == SubSeq(s, 1, Len(s) - 1)
Top(s) == s[Len(s)]

\* A node of the tree variant: {'time': 0.0, 'children': defaultdict(float)}
EmptyNode == [time |-> 0, children |-> <<>>]

VARIABLES
    events,             \* the events consumed so far by the three loops
    tree, stack,        \* tree variant, build_call_tree
    frame_times, frame_samples, an_stack,   \* report variant, analyze_speedscope
    call_relationships, cr_stack,           \* report variant, build_call_tree
    frame_names,        \* the frame table: the name of frame i is frame_names[i + 1]
    pc,                 \* "reduce", "render", "rendered", "report" or "done"
    root_idx, root_time, exit_code, stderr, \* tree variant, main
    render,             \* the last renderer call: its arguments and what it returned
    results,            \* report variant: what analyze_speedscope returned
    report              \* report variant: the sections format_report produced

vars == <<events, tree, stack, frame_times, frame_samples, an_stack,
          call_relationships, cr_stack, frame_names, pc,
          root_idx, root_time, exit_code, stderr, render, results, report>>
mainVars == <<root_idx, root_time, exit_code, stderr, render>>
reportVars == <<results, report>>
reduceVars == <<events, tree, stack, frame_times, frame_samples, an_stack,
                call_relationships, cr_stack>>

\* ------------------------------------------------ tree variant: build_call_tree
\* AddTime with the duration assigned instead of added.
AddTimeAssigned(t, frame_idx, duration) ==
    Put(t, frame_idx, [Get(t, frame_idx, [time |-> 0, children |-> <<>>])
                          EXCEPT !.time = duration])

\* tree[frame_idx]['time'] += duration
AddTime(t, frame_idx, duration) ==
    LET node == Get(t, frame_idx, EmptyNode)
    IN  Put(t, frame_idx, [node EXCEPT !.time = @ + duration])

\* tree[parent_idx]['children'][frame_idx] += duration
AddChild(t, parent_idx, frame_idx, duration) ==
    LET node == Get(t, parent_idx, EmptyNode)
        kids == Put(node.children, frame_idx,
                    Get(node.children, frame_idx, 0) + duration)
    IN  Put(t, parent_idx, [node EXCEPT !.children = kids])

\* BuildCallTreeStep without the test for an empty stack: a Close on an empty
\* stack is taken as the Close of a frame opened at time 0.
BuildCallTreeStepUnguarded(event) ==
    IF event.type = "O" THEN
        /\ stack' = Append(stack, <<event.frame, event.at>>)
        /\ tree' = tree
    ELSE
        LET opened == IF stack # <<>> THEN Top(stack) ELSE <<event.frame, 0>>
            rest == IF stack # <<>> THEN Front(stack) ELSE <<>>
            duration == event.at - opened[2]
            timed == AddTime(tree, event.frame, duration)
        IN  /\ stack' = rest
            /\ tree' = IF opened[1] = event.frame
                       THEN IF rest # <<>>
                            THEN AddChild(timed, Top(rest)[1], event.frame, duration)
                            ELSE timed
                       ELSE tree

\* BuildCallTreeStep with the duration of a mismatched Close credited to the
\* frame that was opened and is taken off the stack.
BuildCallTreeStepCrediting(event) ==
    IF event.type = "O" THEN
        /\ stack' = Append(stack, <<event.frame, event.at>>)
        /\ tree' = tree
    ELSE IF stack # <<>> THEN
        LET opened_frame == Top(stack)[1]
            rest == Front(stack)
            duration == event.at - Top(stack)[2]
            timed == AddTime(tree, opened_frame, duration)
        IN  /\ stack' = rest
            /\ tree' = IF opened_frame = event.frame /\ rest # <<>>
                       THEN AddChild(timed, Top(rest)[1], event.frame, duration)
                       ELSE timed
    ELSE
        /\ stack' = stack
        /\ tree' = tree

\* One iteration of the loop of build_call_tree (tree variant).
BuildCallTreeStep(event) ==
    IF event.type = "O" THEN
        /\ stack' = Append(stack, <<event.frame, event.at>>)
        /\ tree' = tree
    ELSE IF stack # <<>> THEN
        LET opened_frame == Top(stack)[1]
            start_time == Top(stack)[2]
            rest == Front(stack)
            duration == event.at - start_time
            timed == AddTime(tree, event.frame, duration)
        IN  /\ stack' = rest
            /\ tree' = IF opened_frame = event.frame
                       THEN IF rest # <<>>
                            THEN AddChild(timed, Top(rest)[1], event.frame, duration)
                            ELSE timed
                       ELSE tree
    ELSE
        /\ stack' = stack
        /\ tree' = tree

\* --------------------------------------- report variant: analyze_speedscope loop
\* AnalyzeStep without the comparison of the popped frame with the Close's frame.
AnalyzeStepUnmatched(event) ==
    IF event.type = "O" THEN
        /\ an_stack' = Append(an_stack, <<event.frame, event.at>>)
        /\ frame_samples' = Put(frame_samples, event.frame,
                                Get(frame_samples, event.frame, 0) + 1)
        /\ frame_times' = frame_times
    ELSE IF an_stack # <<>> THEN
        /\ an_stack' = Front(an_stack)
        /\ frame_times' = Put(frame_times, event.frame,
                              Get(frame_times, event.frame, 0)
                              + (event.at - Top(an_stack)[2]))
        /\ frame_samples' = frame_samples
    ELSE
        /\ an_stack' = an_stack
        /\ frame_times' = frame_times
        /\ frame_samples' = frame_samples

\* AnalyzeStep with a Close of another frame leaving the stack as it is.
AnalyzeStepPeeking(event) ==
    IF event.type = "O" THEN
        /\ an_stack' = Append(an_stack, <<event.frame, event.at>>)
        /\ frame_samples' = Put(frame_samples, event.frame,
                                Get(frame_samples, event.frame, 0) + 1)
        /\ frame_times' = frame_times
    ELSE IF an_stack # <<>> /\ Top(an_stack)[1] = event.frame THEN
        LET duration == event.at - Top(an_stack)[2]
        IN  /\ an_stack' = Front(an_stack)
            /\ frame_times' = Put(frame_times, event.frame,
                                  Get(frame_times, event.frame, 0) + duration)
            /\ frame_samples' = frame_samples
    ELSE
        /\ an_stack' = an_stack
        /\ frame_times' = frame_times
        /\ frame_samples' = frame_samples

\* AnalyzeStep with the sample counted when the frame is closed, not when it
\* is opened.
AnalyzeStepSampledOnClose(event) ==
    IF event.type = "O" THEN
        /\ an_stack' = Append(an_stack, <<event.frame, event.at>>)
        /\ frame_samples' = frame_samples
        /\ frame_times' = frame_times
    ELSE IF an_stack # <<>> THEN
        LET matched == Top(an_stack)[1] = event.frame
            duration == event.at - Top(an_stack)[2]
        IN  /\ an_stack' = Front(an_stack)
            /\ frame_times' = IF matched
                              THEN Put(frame_times, event.frame,
                                       Get(frame_times, event.frame, 0) + duration)
                              ELSE frame_times
            /\ frame_samples' = IF matched
                                THEN Put(frame_samples, event.frame,
                                         Get(frame_samples, event.frame, 0) + 1)
                                ELSE frame_samples
    ELSE
        /\ an_stack' = an_stack
        /\ frame_times' = frame_times
        /\ frame_samples' = frame_samples

\* One iteration of the reduction loop of analyze_speedscope.
AnalyzeStep(event) ==
    IF event.type = "O" THEN
        /\ an_stack' = Append(an_stack, <<event.frame, event.at>>)
        /\ frame_samples' = Put(frame_samples, event.frame,
                                Get(frame_samples, event.frame, 0) + 1)
        /\ frame_times' = frame_times
    ELSE IF an_stack # <<>> THEN
        LET opened_frame == Top(an_stack)[1]
            start_time == Top(an_stack)[2]
            duration == event.at - start_time
        IN  /\ an_stack' = Front(an_stack)
            /\ frame_times' = IF opened_frame = event.frame
                              THEN Put(frame_times, event.frame,
                                       Get(frame_times, event.frame, 0) + duration)
                              ELSE frame_times
            /\ frame_samples' = frame_samples
    ELSE
        /\ an_stack' = an_stack
        /\ frame_times' = frame_times
        /\ frame_samples' = frame_samples

\* 'total_samples': sum(frame_samples.values())
TotalSamples(samples) == SumValues(samples)

\* ------------------------------------------ report variant: build_call_tree
\* call_relationships[parent_idx][frame_idx] = v
SetEdge(cr, parent_idx, frame_idx, v) ==
    Put(cr, parent_idx, Put(Get(cr, parent_idx, <<>>), frame_idx, v))

\* CallRelationshipsStep with the bottom of the stack taken as the parent.
CallRelationshipsStepFromBottom(event) ==
    IF event.type = "O" THEN
        /\ cr_stack' = Append(cr_stack, <<event.frame, event.at>>)
        /\ call_relationships' =
              IF cr_stack # <<>>
              THEN SetEdge(call_relationships, cr_stack[1][1], event.frame, 0)
              ELSE call_relationships
    ELSE IF cr_stack # <<>> THEN
        LET rest == Front(cr_stack)
            duration == event.at - Top(cr_stack)[2]
        IN  /\ cr_stack' = rest
            /\ call_relationships' =
                  IF Top(cr_stack)[1] = event.frame /\ rest # <<>>
                  THEN SetEdge(call_relationships, rest[1][1], event.frame,
                               Get(Get(call_relationships, rest[1][1], <<>>),
                                   event.frame, 0) + duration)
                  ELSE call_relationships
    ELSE
        /\ cr_stack' = cr_stack
        /\ call_relationships' = call_relationships

\* One iteration of the loop of build_call_tree (report variant).
CallRelationshipsStep(event) ==
    IF event.type = "O" THEN
        /\ cr_stack' = Append(cr_stack, <<event.frame, event.at>>)
        /\ call_relationships' =
              IF cr_stack # <<>>
              THEN SetEdge(call_relationships, Top(cr_stack)[1], event.frame, 0)
              ELSE call_relationships
    ELSE IF cr_stack # <<>> THEN
        LET opened_frame == Top(cr_stack)[1]
            start_time == Top(cr_stack)[2]
            rest == Front(cr_stack)
            duration == event.at - start_time
        IN  /\ cr_stack' = rest
            /\ call_relationships' =
                  IF opened_frame = event.frame /\ rest # <<>>
                  THEN LET parent_idx == Top(rest)[1]
                           old == Get(Get(call_relationships, parent_idx, <<>>),
                                      event.frame, 0)
                       IN  SetEdge(call_relationships, parent_idx, event.frame,
                                   old + duration)
                  ELSE call_relationships
    ELSE
        /\ cr_stack' = cr_stack
        /\ call_relationships' = call_relationships

\* ------------------------------------------------------------ frame names
\* A name is a sequence of tokens; "!" is the delimiter between the qualifier
\* and the method name, and `x in name` is the test for a contiguous run.
Contains(name, pattern) ==
    \E i \in 0 .. (Len(name) - Len(pattern)) :
        SubSeq(name, i + 1, i + Len(pattern)) = pattern
HasBang(name) == Contains(name, <<"!">>)
FirstBang(name) == CHOOSE i \in DOMAIN name :
                      name[i] = "!" /\ \A k \in 1 .. (i - 1) : name[k] # "!"

\* args.namespace (its default)
NamespaceFilter == <<"Atomic.Net.MonoGame">>

PlainName == <<"Atomic.Net.MonoGame", "!", "Run">>
SetupName == <<"Atomic.Net.MonoGame", "!", "GlobalSetup">>
ForeignName == <<"System.", "Text", "!", "Run">>
BareName == <<"Atomic.Net.MonoGame">>

\* frame_idx in frame_names, for frame_names = {i: frame['name'] for i, ...}
InNames(names, frame_idx) == frame_idx \in 0 .. (Len(names) - 1)
NameOf(names, frame_idx) == names[frame_idx + 1]

\* should_skip_method: any(pattern in method_name for pattern in skip_patterns)
SkipPatterns ==
    { <<"UNMANAGED_CODE_TIME">>, <<"GlobalSetup">>, <<"GlobalCleanup">>,
      <<"IterationSetup">>, <<"IterationCleanup">>, <<"BenchmarkDotNet.">>,
      <<"Perfolizer.">>, <<".", ".cctor()">>, <<".cctor()">>, <<".Initialize()">>,
      <<"BeforeAnythingElse">>, <<"AfterAll">>, <<"BeforeActualRun">>,
      <<"AfterActualRun">>, <<"OverheadJitting">>, <<"WorkloadJitting">>,
      <<"OverheadWarmup">>, <<"OverheadActual">>, <<"WorkloadWarmup">> }
\* ShouldSkipMethod with all() for any().
ShouldSkipMethodAll(method_name) ==
    \A pattern \in SkipPatterns : Contains(method_name, pattern)
ShouldSkipMethod(method_name) ==
    \E pattern \in SkipPatterns : Contains(method_name, pattern)

\* get_method_name (tree variant): name.split('!', 1)[1] if '!' in name else name
GetMethodName(frame_idx, names) ==
    IF ~InNames(names, frame_idx) THEN <<"<frame>", ToString(frame_idx)>>
    ELSE LET name == NameOf(names, frame_idx)
         IN  IF HasBang(name)
             THEN SubSeq(name, FirstBang(name) + 1, Len(name))
             ELSE name

\* ------------------------------------------------ tree variant: find_primary_root
\* FindPrimaryRootFrom without the test of should_skip_method.
RECURSIVE FindPrimaryRootFromUnskipped(_, _, _, _, _, _)
FindPrimaryRootFromUnskipped(t, i, names, namespace_filter, best_root, best_time) ==
    IF i > Len(t) THEN <<best_root, best_time>>
    ELSE
        LET frame_idx == t[i][1]
            skipped ==
                \/ ~InNames(names, frame_idx)
                \/ ~Contains(NameOf(names, frame_idx), namespace_filter)
                \/ ~HasBang(NameOf(names, frame_idx))
        IN  IF ~skipped /\ t[i][2].time > best_time
            THEN FindPrimaryRootFromUnskipped(t, i + 1, names, namespace_filter,
                                              frame_idx, t[i][2].time)
            ELSE FindPrimaryRootFromUnskipped(t, i + 1, names, namespace_filter,
                                              best_root, best_time)

\* The loop of find_primary_root from entry i of tree.items() on.
RECURSIVE FindPrimaryRootFrom(_, _, _, _, _, _)
FindPrimaryRootFrom(t, i, names, namespace_filter, best_root, best_time) ==
    IF i > Len(t) THEN <<best_root, best_time>>
    ELSE
        LET frame_idx == t[i][1]
            data == t[i][2]
            skipped ==
                \/ ~InNames(names, frame_idx)
                \/ ~Contains(NameOf(names, frame_idx), namespace_filter)
                \/ ~HasBang(NameOf(names, frame_idx))
                \/ ShouldSkipMethod(GetMethodName(frame_idx, names))
            inclusive_time == data.time
        IN  IF ~skipped /\ inclusive_time > best_time
            THEN FindPrimaryRootFrom(t, i + 1, names, namespace_filter,
                                     frame_idx, inclusive_time)
            ELSE FindPrimaryRootFrom(t, i + 1, names, namespace_filter,
                                     best_root, best_time)

FindPrimaryRoot(t, names, namespace_filter) ==
    FindPrimaryRootFrom(t, 1, names, namespace_filter, None, 0)

\* ----------------------------------------------------- tree variant: print_tree
Branch == "|-"
Terminal == "+-"
Vertical == "| "
Blank == "  "

StartsWith(s, p) == Len(p) <= Len(s) /\ SubSeq(s, 1, Len(p)) = p

\* sorted(children.items(), key=lambda x: x[1], reverse=True): stable, descending
RECURSIVE SortedChildren(_)
SortedChildren(children) ==
    IF children = <<>> THEN <<>>
    ELSE LET x == children[Len(children)]
             before == SortedChildren(Front(children))
             AtLeast(y) == y[2] >= x[2]
             Less(y) == y[2] < x[2]
         IN  SelectSeq(before, AtLeast) \o <<x>> \o SelectSeq(before, Less)

\* PctBelow with the operands of the division swapped.
PctBelowSwapped(time, total_time, min_pct) ==
    IF total_time > 0 THEN total_time * 100 < min_pct * time ELSE 0 < min_pct

\* pct = (time / total_time * 100) if total_time > 0 else 0;  pct < min_pct
PctBelow(time, total_time, min_pct) ==
    IF total_time > 0 THEN time * 100 < min_pct * total_time ELSE 0 < min_pct

\* (time / total_time * 100) >= min_pct, for total_time # 0
PctAtLeast(time, total_time, min_pct) ==
    IF total_time > 0 THEN time * 100 >= min_pct * total_time
    ELSE time * 100 <= min_pct * total_time

\* VisitedAfterPrintTree without the copy: caller and callee share one set.
VisitedShared(passed, local) == local

\* visited = visited.copy() in print_tree: the set the caller passed is, after
\* the call, what it was before, whatever the callee added to its own copy.
VisitedAfterPrintTree(passed, local) == passed

\* A call of a renderer for `frame_idx`, made from the chain of calls `path`,
\* with its depth and prefix arguments (print_call_tree has no prefix).
Call(frame_idx, path, depth, prefix) ==
    [frame |-> frame_idx, path |-> path, depth |-> depth, prefix |-> prefix]

\* What a renderer call returns: the lines, whether it raised, the state of the
\* set object that was passed as `visited`, the cycle breaks it took and the
\* recursive calls it made.
Returned(lines, raised, seen, cuts, calls) ==
    [lines |-> lines, raised |-> raised, seen |-> seen, cuts |-> cuts,
     calls |-> calls]

\* OnPath without the test: no frame is taken to be on the path.
NeverOnPath(frame_idx, visited) == FALSE

\* frame_idx in visited
OnPath(frame_idx, visited) == frame_idx \in visited

RECURSIVE PrintTree(_, _, _, _, _, _, _, _, _)
RECURSIVE PrintTreeSkipped(_, _, _, _, _, _, _, _, _)
RECURSIVE PrintTreeChildren(_, _, _, _, _, _, _, _, _, _)

\* print_tree.  `path` is the chain of frames of the enclosing calls; it is not
\* a parameter of the code.  A line keeps, beside its text (prefix, time, name),
\* the frame, depth, path and visited set of the call that emitted it.
PrintTree(frame_idx, t, names, total_time, min_pct, depth, prefix, visited, path) ==
    IF Len(path) >= RecursionLimit THEN     \* RecursionError
        Returned(<<>>, TRUE, visited, {}, {})
    ELSE IF OnPath(frame_idx, visited) \/ ~InNames(names, frame_idx) THEN
        Returned(<<>>, FALSE, visited,
                 IF OnPath(frame_idx, visited)
                 THEN {Call(frame_idx, path, depth, prefix)} ELSE {}, {})
    ELSE
        LET local == visited \cup {frame_idx}
            here == Append(path, frame_idx)
            method_name == GetMethodName(frame_idx, names)
            data == Get(t, frame_idx, EmptyNode)
        IN  IF ShouldSkipMethod(method_name) THEN
                LET r == PrintTreeSkipped(data.children, t, names, total_time,
                                          min_pct, depth, prefix, local, here)
                IN  [r EXCEPT !.seen = VisitedAfterPrintTree(visited, r.seen)]
            ELSE IF PctBelow(data.time, total_time, min_pct) THEN
                Returned(<<>>, FALSE, VisitedAfterPrintTree(visited, local), {}, {})
            ELSE
                LET line == [prefix |-> IF depth = 0 THEN <<>> ELSE prefix,
                             time |-> data.time,
                             name |-> method_name,
                             frame |-> frame_idx,
                             depth |-> depth,
                             path |-> path,
                             visited |-> local]
                IN  IF data.children = <<>> THEN
                        Returned(<<line>>, FALSE,
                                 VisitedAfterPrintTree(visited, local), {}, {})
                    ELSE IF total_time = 0 THEN     \* ZeroDivisionError in the filter
                        Returned(<<>>, TRUE,
                                 VisitedAfterPrintTree(visited, local), {}, {})
                    ELSE
                        LET Significant(x) == PctAtLeast(x[2], total_time, min_pct)
                            significant == SelectSeq(SortedChildren(data.children),
                                                     Significant)
                            r == PrintTreeChildren(significant, 1, t, names,
                                                   total_time, min_pct, depth,
                                                   prefix, local, here)
                        IN  Returned(IF r.raised THEN <<>> ELSE <<line>> \o r.lines,
                                     r.raised,
                                     VisitedAfterPrintTree(visited, r.seen),
                                     r.cuts, r.calls)

\* The loop over the children of a skipped frame: same depth, same prefix, in the
\* order of the dict, neither sorted nor filtered.
PrintTreeSkipped(children, t, names, total_time, min_pct, depth, prefix, visited, path) ==
    IF children = <<>> THEN Returned(<<>>, FALSE, visited, {}, {})
    ELSE
        LET c == PrintTree(children[1][1], t, names, total_time, min_pct,
                           depth, prefix, visited, path)
            made == {Call(children[1][1], path, depth, prefix)} \cup c.calls
        IN  IF c.raised THEN Returned(<<>>, TRUE, c.seen, c.cuts, made)
            ELSE LET r == PrintTreeSkipped(Tail(children), t, names, total_time,
                                           min_pct, depth, prefix, c.seen, path)
                 IN  Returned(IF r.raised THEN <<>> ELSE c.lines \o r.lines,
                              r.raised, r.seen, c.cuts \cup r.cuts,
                              made \cup r.calls)

\* The loop over `significant`, from its i-th entry on.
PrintTreeChildren(significant, i, t, names, total_time, min_pct, depth, prefix, visited, path) ==
    IF i > Len(significant) THEN Returned(<<>>, FALSE, visited, {}, {})
    ELSE
        LET child_idx == significant[i][1]
            is_last == (i = Len(significant))
            child_prefix == prefix \o (IF is_last THEN <<Terminal>> ELSE <<Branch>>)
            next_prefix == prefix \o (IF is_last THEN <<Blank>> ELSE <<Vertical>>)
            c == PrintTree(child_idx, t, names, total_time, min_pct,
                           depth + 1, next_prefix, visited, path)
            child_lines ==
                IF c.lines = <<>> THEN <<>>
                ELSE LET first == c.lines[1].prefix
                         cut == IF StartsWith(first, next_prefix)
                                THEN SubSeq(first, Len(next_prefix) + 1, Len(first))
                                ELSE first
                     IN  <<[c.lines[1] EXCEPT !.prefix = child_prefix \o cut]>>
                         \o Tail(c.lines)
            made == {Call(child_idx, path, depth + 1, next_prefix)} \cup c.calls
        IN  IF c.raised THEN Returned(<<>>, TRUE, c.seen, c.cuts, made)
            ELSE LET r == PrintTreeChildren(significant, i + 1, t, names, total_time,
                                            min_pct, depth, prefix, c.seen, path)
                 IN  Returned(IF r.raised THEN <<>> ELSE child_lines \o r.lines,
                              r.raised, r.seen, c.cuts \cup r.cuts,
                              made \cup r.calls)

\* ------------------------------------- report variant: filtered_frames, names
\* The skip_patterns of analyze_speedscope (exclude_init).
InitPatterns ==
    { <<".Initialize()">>, <<".", ".cctor()">>, <<".", ".ctor()">>, <<"GlobalSetup">>,
      <<"GlobalCleanup">>, <<"IterationSetup">>, <<"IterationCleanup">> }

\* name.split('!')[1], for a name with a '!'
SecondPart(name) ==
    LET rest == SubSeq(name, FirstBang(name) + 1, Len(name))
    IN  IF HasBang(rest) THEN SubSeq(rest, 1, FirstBang(rest) - 1) ELSE rest

\* The filtered_frames entry of one frame, as a dict of at most one entry.
FilteredEntry(frame_idx, name, namespace_filter, exclude_init, include_system) ==
    IF Contains(name, namespace_filter) /\ HasBang(name) THEN
        IF exclude_init /\ \E pattern \in InitPatterns :
                               Contains(SecondPart(name), pattern)
        THEN <<>>
        ELSE <<<<frame_idx, SecondPart(name)>>>>
    ELSE IF include_system /\ name # <<>> /\ name[1] = "System." /\ HasBang(name)
    THEN <<<<frame_idx, SecondPart(name)>>>>
    ELSE <<>>

\* The loop of analyze_speedscope that fills filtered_frames, from frame i on.
RECURSIVE FilteredFrames(_, _, _, _, _)
FilteredFrames(names, i, namespace_filter, exclude_init, include_system) ==
    IF i > Len(names) THEN <<>>
    ELSE FilteredEntry(i - 1, names[i], namespace_filter, exclude_init, include_system)
         \o FilteredFrames(names, i + 1, namespace_filter, exclude_init, include_system)

\* get_method_name (report variant).  The names of the model are shorter than
\* the 100 characters at which print_call_tree truncates them.
GetMethodNameReport(frame_idx, names, filtered_frames) ==
    IF Has(filtered_frames, frame_idx) THEN Get(filtered_frames, frame_idx, <<>>)
    ELSE IF InNames(names, frame_idx) THEN
        IF HasBang(NameOf(names, frame_idx)) THEN SecondPart(NameOf(names, frame_idx))
        ELSE NameOf(names, frame_idx)
    ELSE <<"<unknown frame>", ToString(frame_idx)>>

\* ----------------------------------------------- report variant: print_call_tree
\* The recursive call gets visited.copy(): the caller's own set is, after the
\* call, what it was before, whatever the callee added to the copy.
VisitedAfterPrintCallTree(own, copy) == own

\* AtMaxDepth with > for >=.
AtMaxDepthExclusive(depth, max_depth) == depth > max_depth

\* if depth >= max_depth: return []
AtMaxDepth(depth, max_depth) == depth >= max_depth

RECURSIVE PrintCallTree(_, _, _, _, _, _, _, _, _, _)
RECURSIVE PrintCallTreeChildren(_, _, _, _, _, _, _, _, _, _, _)

\* print_call_tree.  `path` is the chain of parent_idx of the enclosing calls.
PrintCallTree(parent_idx, cr, names, filtered_frames, total_time, depth, max_depth, min_pct, visited, path) ==
    IF AtMaxDepth(depth, max_depth) THEN Returned(<<>>, FALSE, visited, {}, {})
    ELSE IF parent_idx \in visited THEN
        Returned(<<>>, FALSE, visited, {Call(parent_idx, path, depth, <<>>)}, {})
    ELSE
        LET added == visited \cup {parent_idx}     \* visited.add(parent_idx)
            children == Get(cr, parent_idx, <<>>)
        IN  IF children = <<>> THEN Returned(<<>>, FALSE, added, {}, {})
            ELSE PrintCallTreeChildren(SortedChildren(children), 1, cr, names,
                                       filtered_frames, total_time, depth, max_depth,
                                       min_pct, added, Append(path, parent_idx))

\* The loop over sorted_children, from its i-th entry on.
PrintCallTreeChildren(sorted_children, i, cr, names, filtered_frames, total_time, depth, max_depth, min_pct, visited, path) ==
    IF i > Len(sorted_children) THEN Returned(<<>>, FALSE, visited, {}, {})
    ELSE
        LET child_idx == sorted_children[i][1]
            time_spent == sorted_children[i][2]
        IN  IF PctBelow(time_spent, total_time, min_pct) /\ depth > 0 THEN
                PrintCallTreeChildren(sorted_children, i + 1, cr, names,
                                      filtered_frames, total_time, depth, max_depth,
                                      min_pct, visited, path)
            ELSE
                LET line == [prefix |-> [k \in 1 .. depth |-> Blank] \o <<Branch>>,
                             time |-> time_spent,
                             name |-> GetMethodNameReport(child_idx, names,
                                                          filtered_frames),
                             frame |-> child_idx,
                             depth |-> depth,
                             path |-> path,
                             visited |-> visited]
                    c == PrintCallTree(child_idx, cr, names, filtered_frames,
                                       total_time, depth + 1, max_depth, min_pct,
                                       visited, path)
                    r == PrintCallTreeChildren(sorted_children, i + 1, cr, names,
                                               filtered_frames, total_time, depth,
                                               max_depth, min_pct,
                                               VisitedAfterPrintCallTree(visited, c.seen),
                                               path)
                IN  Returned(<<line>> \o c.lines \o r.lines, FALSE, r.seen,
                             c.cuts \cup r.cuts,
                             {Call(child_idx, path, depth + 1, <<>>)}
                             \cup c.calls \cup r.calls)

\* ------------------------------------------------- report variant: format_report
\* The number of leading entries that are shown whatever their percentage.
AlwaysShown == 10

\* One ranked loop of format_report, from rank i on, with `count` entries emitted
\* so far.  An entry of `ranked` is <<idx, value, method>>; a line keeps the rank
\* and the value it prints.
RECURSIVE RankedSection(_, _, _, _, _, _)
RankedSection(ranked, i, total, top_n, min_pct, count) ==
    IF i > Len(ranked) THEN <<>>
    ELSE IF PctBelow(ranked[i][2], total, min_pct) /\ i > AlwaysShown THEN
        RankedSection(ranked, i + 1, total, top_n, min_pct, count)
    ELSE
        <<[rank |-> i, value |-> ranked[i][2], method |-> ranked[i][3]]>>
        \o (IF count + 1 >= top_n THEN <<>>
            ELSE RankedSection(ranked, i + 1, total, top_n, min_pct, count + 1))

\* format_report(results, top_n, min_pct) without a call tree section: the two
\* ranked sections and the "Methods analyzed" count of the summary.
FormatReportOf(res, top_n, min_pct) ==
    [top_n |-> top_n,
     min_pct |-> min_pct,
     by_time |-> RankedSection(res.sorted_by_time, 1, res.total_time,
                               top_n, min_pct, 0),
     by_samples |-> RankedSection(res.sorted_by_samples, 1, res.total_samples,
                                  top_n, min_pct, 0),
     methods_analyzed |-> Len(res.sorted_by_time)]

\* The frames for which a print_tree call reached tree.get(frame_idx, ...).
TreeLookups(r, names) ==
    {c.frame : c \in {x \in r.calls \ r.cuts : InNames(names, x.frame)}}

\* The frames for which a print_call_tree call reached
\* call_relationships.get(parent_idx, {}).
CallTreeLookups(r, max_depth) ==
    {c.frame : c \in {x \in r.calls \ r.cuts : ~AtMaxDepth(x.depth, max_depth)}}

\* --------------------------------------------------------------- the actions
NoResults ==
    [sorted_by_time |-> <<>>, sorted_by_samples |-> <<>>,
     total_time |-> 0, total_samples |-> 0]
NoReport ==
    [top_n |-> 0, min_pct |-> 0, by_time |-> <<>>, by_samples |-> <<>>,
     methods_analyzed |-> -1]

\* What a second call with the same arguments returned, if there was one.
NotAgain == [called |-> FALSE, lines |-> <<>>, raised |-> FALSE]
Again(r) == [called |-> TRUE, lines |-> r.lines, raised |-> r.raised]

NoRender ==
    [fn |-> "none", root |-> None, total_time |-> 0, min_pct |-> 0,
     max_depth |-> 0, lines |-> <<>>, raised |-> FALSE, cuts |-> {}, calls |-> {},
     again |-> NotAgain]

Rendered(fn, root, total_time, min_pct, max_depth, r) ==
    [fn |-> fn, root |-> root, total_time |-> total_time, min_pct |-> min_pct,
     max_depth |-> max_depth, lines |-> r.lines, raised |-> r.raised, cuts |-> r.cuts,
     calls |-> {Call(root, <<>>, 0, <<>>)} \cup r.calls,
     again |-> NotAgain]

\* The three loops iterate over the same list `events` and share no state; the
\* k-th iteration of each is taken together, on the k-th event of the stream.
Reduce(event) ==
    /\ pc = "reduce"
    /\ Len(events) < MaxEvents
    /\ events' = Append(events, event)
    /\ BuildCallTreeStep(event)
    /\ AnalyzeStep(event)
    /\ CallRelationshipsStep(event)
    /\ UNCHANGED <<frame_names, pc>>
    /\ UNCHANGED mainVars
    /\ UNCHANGED reportVars

\* main of the tree variant, from the end of build_call_tree on.
Main(min_pct) ==
    /\ pc = "reduce"
    /\ pc' = "done"
    /\ LET found == FindPrimaryRoot(tree, frame_names, NamespaceFilter)
           r == PrintTree(found[1], tree, frame_names, found[2], min_pct,
                          0, <<>>, {}, <<>>)
       IN  /\ root_idx' = found[1]
           /\ root_time' = found[2]
           /\ IF found[1] = None THEN
                  /\ stderr' = "Error: No methods found in namespace"
                  /\ exit_code' = 1
                  /\ render' = NoRender
                  /\ tree' = tree
              ELSE
                  /\ render' = Rendered("print_tree", found[1], found[2], min_pct, 0, r)
                  /\ stderr' = IF r.raised THEN "Error: division by zero" ELSE ""
                  /\ exit_code' = IF r.raised THEN 1 ELSE 0
                  /\ tree' = AfterLookups(tree, TreeLookups(render', frame_names),
                                          EmptyNode)
    /\ UNCHANGED <<events, stack, frame_times, frame_samples, an_stack,
                   call_relationships, cr_stack>>
    /\ UNCHANGED frame_names
    /\ UNCHANGED reportVars

\* A call print_tree(frame_idx, tree, frame_names, total_time, min_pct).
PrintTreeCall(frame_idx, total_time, min_pct) ==
    /\ pc = "render"
    /\ pc' = "rendered"
    /\ tree # <<>>
    /\ render' = Rendered("print_tree", frame_idx, total_time, min_pct, 0,
                          PrintTree(frame_idx, tree, frame_names, total_time,
                                    min_pct, 0, <<>>, {}, <<>>))
    /\ tree' = AfterLookups(tree, TreeLookups(render', frame_names), EmptyNode)
    /\ UNCHANGED <<events, stack, frame_times, frame_samples, an_stack,
                   call_relationships, cr_stack>>
    /\ UNCHANGED <<frame_names, root_idx, root_time, exit_code, stderr>>
    /\ UNCHANGED reportVars

\* The same call of print_tree once more, on what the first call left.
PrintTreeAgain ==
    /\ pc = "rendered"
    /\ render.fn = "print_tree"
    /\ pc' = "done"
    /\ LET r == PrintTree(render.root, tree, frame_names, render.total_time,
                          render.min_pct, 0, <<>>, {}, <<>>)
           second == Rendered("print_tree", render.root, render.total_time,
                              render.min_pct, 0, r)
       IN  /\ render' = [render EXCEPT !.again = Again(r)]
           /\ tree' = AfterLookups(tree, TreeLookups(second, frame_names), EmptyNode)
    /\ UNCHANGED <<events, stack, frame_times, frame_samples, an_stack,
                   call_relationships, cr_stack>>
    /\ UNCHANGED <<frame_names, root_idx, root_time, exit_code, stderr>>
    /\ UNCHANGED reportVars

\* A call print_call_tree(parent_idx, call_tree, frame_names, filtered_frames,
\* total_time, depth=0, max_depth=..., min_pct=...), made as format_report makes
\* it: only for a call tree that is not empty.
PrintCallTreeCall(parent_idx, total_time, max_depth, min_pct) ==
    /\ pc = "render"
    /\ pc' = "rendered"
    /\ call_relationships # <<>>
    /\ render' = Rendered("print_call_tree", parent_idx, total_time, min_pct, max_depth,
                          PrintCallTree(parent_idx, call_relationships, frame_names,
                                        FilteredFrames(frame_names, 1, NamespaceFilter,
                                                       TRUE, FALSE),
                                        total_time, 0, max_depth, min_pct, {}, <<>>))
    /\ call_relationships' =
          AfterLookups(call_relationships, CallTreeLookups(render', max_depth), <<>>)
    /\ UNCHANGED <<events, tree, stack, frame_times, frame_samples, an_stack, cr_stack>>
    /\ UNCHANGED <<frame_names, root_idx, root_time, exit_code, stderr>>
    /\ UNCHANGED reportVars

\* The same call of print_call_tree once more, on what the first call left.
PrintCallTreeAgain ==
    /\ pc = "rendered"
    /\ render.fn = "print_call_tree"
    /\ pc' = "done"
    /\ LET r == PrintCallTree(render.root, call_relationships, frame_names,
                              FilteredFrames(frame_names, 1, NamespaceFilter,
                                             TRUE, FALSE),
                              render.total_time, 0, render.max_depth,
                              render.min_pct, {}, <<>>)
           second == Rendered("print_call_tree", render.root, render.total_time,
                              render.min_pct, render.max_depth, r)
       IN  /\ render' = [render EXCEPT !.again = Again(r)]
           /\ call_relationships' =
                 AfterLookups(call_relationships,
                              CallTreeLookups(second, render.max_depth), <<>>)
    /\ UNCHANGED <<events, tree, stack, frame_times, frame_samples, an_stack, cr_stack>>
    /\ UNCHANGED <<frame_names, root_idx, root_time, exit_code, stderr>>
    /\ UNCHANGED reportVars

\* main of the report variant without --call-tree, from the return of
\* analyze_speedscope on: format_report(results, top_n, min_pct).
FormatReport(top_n, min_pct) ==
    /\ pc = "report"
    /\ pc' = "done"
    /\ report' = FormatReportOf(results, top_n, min_pct)
    /\ UNCHANGED reduceVars
    /\ UNCHANGED mainVars
    /\ UNCHANGED <<frame_names, results>>

\* ------------------------------------------------------------ the inputs
\* Frame tables for the frame ids `ids`, or for all of them but the last (which
\* then has no name), of which at most one name is not the plain one.
NameTables(ids, kinds) ==
    {s \in UNION {[1 .. k -> kinds \cup {PlainName}] :
                     k \in (Cardinality(ids) - 1) .. Cardinality(ids)} :
        Cardinality({i \in DOMAIN s : s[i] # PlainName}) <= 1}

\* Call graphs: a list of at most MaxEdges weighted edges <<parent, child, time>>,
\* in the order in which the reducer would have inserted them.
\* Only the order of the edges of one parent matters, so the parents are taken
\* in ascending order.
EdgeLists ==
    {s \in UNION {[1 .. k -> Nodes \X Nodes \X Weights] : k \in 0 .. MaxEdges} :
        \A i \in DOMAIN s, j \in DOMAIN s :
            /\ i # j => <<s[i][1], s[i][2]>> # <<s[j][1], s[j][2]>>
            /\ i < j => s[i][1] <= s[j][1]}
\* Node times: at most one node has less than the largest time.
TimeTables ==
    {f \in [Nodes -> Weights] : Cardinality({n \in Nodes : f[n] # 2}) <= 1}

\* A frame table with the node times: at most one node is not a named, plain
\* frame of the largest time.
NodeTables ==
    {nt \in NameTables(Nodes, {SetupName}) \X TimeTables :
        Cardinality({n \in Nodes : \/ ~InNames(nt[1], n)
                                   \/ NameOf(nt[1], n) # PlainName
                                   \/ nt[2][n] # 2}) <= 1}

ChildrenOf(edges, p) ==
    LET OfP(e) == e[1] = p
        mine == SelectSeq(edges, OfP)
    IN  [i \in 1 .. Len(mine) |-> <<mine[i][2], mine[i][3]>>]
TreeOf(edges, times) ==
    [i \in 1 .. Cardinality(Nodes) |->
        <<i - 1, [time |-> times[i - 1], children |-> ChildrenOf(edges, i - 1)]>>]
CallsOf(edges) ==
    LET HasChildren(entry) == entry[2] # <<>>
    IN  SelectSeq([i \in 1 .. Cardinality(Nodes) |-> <<i - 1, ChildrenOf(edges, i - 1)>>],
                  HasChildren)

Idle ==
    /\ root_idx = None
    /\ root_time = 0
    /\ exit_code = 0
    /\ stderr = ""
    /\ render = NoRender
    /\ report = NoReport

Init ==
    /\ pc = "reduce"
    /\ events = <<>>
    /\ tree = <<>>
    /\ stack = <<>>
    /\ frame_times = <<>>
    /\ frame_samples = <<>>
    /\ an_stack = <<>>
    /\ call_relationships = <<>>
    /\ cr_stack = <<>>
    /\ frame_names \in NameTables(Frames, {SetupName, ForeignName, BareName})
    /\ results = NoResults
    /\ Idle

Next ==
    \/ \E event \in EventSet : Reduce(event)
    \/ \E min_pct \in MinPcts : Main(min_pct)

Spec == Init /\ [][Next]_vars

\* The tree variant on balanced streams: every Close closes the frame on top of
\* the stack, not before it was opened, and an Open leaves room for its Close.
KeepsBalance(event) ==
    IF event.type = "O"
    THEN Len(events) + Len(stack) + 2 <= MaxBalanced
    ELSE /\ stack # <<>>
         /\ Top(stack)[1] = event.frame
         /\ event.at >= Top(stack)[2]

\* One iteration of the loop of build_call_tree of the tree variant.
ReduceBalanced(event) ==
    /\ pc = "reduce"
    /\ Len(events) < MaxBalanced
    /\ KeepsBalance(event)
    /\ events' = Append(events, event)
    /\ BuildCallTreeStep(event)
    /\ UNCHANGED <<frame_times, frame_samples, an_stack, call_relationships, cr_stack>>
    /\ UNCHANGED <<frame_names, pc>>
    /\ UNCHANGED mainVars
    /\ UNCHANGED reportVars

\* main of the tree variant at the end of a balanced stream.
MainBalanced(min_pct) ==
    /\ stack = <<>>
    /\ Main(min_pct)

BalancedNext ==
    \/ \E event \in EventSet : ReduceBalanced(event)
    \/ \E min_pct \in MinPcts : MainBalanced(min_pct)

BalancedSpec == Init /\ [][BalancedNext]_vars

\* The renderers on drawn inputs: a tree of the tree variant with its frame
\* table, or a call-relationship graph of the report variant.
RenderInit ==
    /\ pc = "render"
    /\ events = <<>>
    /\ stack = <<>>
    /\ frame_times = <<>>
    /\ frame_samples = <<>>
    /\ an_stack = <<>>
    /\ cr_stack = <<>>
    /\ results = NoResults
    /\ Idle
    /\ \E edges \in EdgeLists :
          \/ /\ \E nt \in NodeTables : /\ frame_names = nt[1]
                                        /\ tree = TreeOf(edges, nt[2])
             /\ call_relationships = <<>>
          \/ /\ edges # <<>>
             /\ call_relationships = CallsOf(edges)
             /\ frame_names = [i \in 1 .. Cardinality(Nodes) |-> PlainName]
             /\ tree = <<>>

RenderNext ==
    \/ \E frame_idx \in Roots, total_time \in TotalTimes, min_pct \in MinPcts :
          PrintTreeCall(frame_idx, total_time, min_pct)
    \/ \E parent_idx \in Nodes, total_time \in TotalTimes,
          max_depth \in MaxDepths, min_pct \in MinPcts :
          PrintCallTreeCall(parent_idx, total_time, max_depth, min_pct)

RenderSpec == RenderInit /\ [][RenderNext]_vars

\* The renderers called twice in a row with the same arguments on the same
\* graph; print_call_tree walks to the largest of the depths.
RepeatNext ==
    \/ \E frame_idx \in Roots, total_time \in TotalTimes, min_pct \in MinPcts :
          PrintTreeCall(frame_idx, total_time, min_pct)
    \/ \E parent_idx \in Nodes, total_time \in TotalTimes, min_pct \in MinPcts :
          PrintCallTreeCall(parent_idx, total_time, Max(MaxDepths), min_pct)
    \/ PrintTreeAgain
    \/ PrintCallTreeAgain

RepeatSpec == RenderInit /\ [][RepeatNext]_vars

\* Ranked lists as analyze_speedscope sorts them: n entries, one per filtered
\* frame, in non-increasing order of their value.
RankedLists(n) ==
    {[i \in 1 .. n |-> <<i - 1, IF i <= k THEN 2 ELSE 1, <<"Run">>>>] : k \in 0 .. n}

\* format_report on drawn results.
ReportInit ==
    /\ pc = "report"
    /\ events = <<>>
    /\ tree = <<>>
    /\ stack = <<>>
    /\ frame_times = <<>>
    /\ frame_samples = <<>>
    /\ an_stack = <<>>
    /\ call_relationships = <<>>
    /\ cr_stack = <<>>
    /\ frame_names = <<>>
    /\ Idle
    /\ \E n \in 0 .. MaxRanked :
          \E by_time \in RankedLists(n), by_samples \in RankedLists(n),
             total_time \in TotalTimes, total_samples \in TotalTimes :
              results = [sorted_by_time |-> by_time,
                         sorted_by_samples |-> by_samples,
                         total_time |-> total_time,
                         total_samples |-> total_samples]

ReportNext == \E top_n \in TopNs, min_pct \in MinPcts : FormatReport(top_n, min_pct)

ReportSpec == ReportInit /\ [][ReportNext]_vars

\* ---------------------------------------------------- properties of the reduction
\* Nesting depth after the first k events, counted from the event types alone.
RECURSIVE Depth(_)
Depth(k) ==
    IF k = 0 THEN 0
    ELSE LET before == Depth(k - 1)
         IN  IF events[k].type = "O" THEN before + 1
             ELSE IF before > 0 THEN before - 1
             ELSE 0

IsClose(j) == events[j].type = "C"
\* The Open that the Close at position j takes off the stack (Depth(j-1) > 0).
OpenOf(j) == Max({i \in 1 .. (j - 1) : events[i].type = "O" /\ Depth(i) = Depth(j - 1)})
\* The Open that is on top of the stack after event j (Depth(j) > 0).
TopAfter(j) == Max({i \in 1 .. j : events[i].type = "O" /\ Depth(i) = Depth(j)})
Matched(j) ==
    /\ IsClose(j)
    /\ Depth(j - 1) > 0
    /\ events[OpenOf(j)].frame = events[j].frame
DurationOf(j) == events[j].at - events[OpenOf(j)].at

WellBalanced ==
    /\ \A j \in DOMAIN events : IsClose(j) => Matched(j)
    /\ Depth(Len(events)) = 0

RECURSIVE SumDurations(_)
SumDurations(S) ==
    IF S = {} THEN 0
    ELSE LET j == CHOOSE x \in S : TRUE IN DurationOf(j) + SumDurations(S \ {j})

PairSum == SumDurations({j \in DOMAIN events : Matched(j)})

RECURSIVE SumTimes(_)
SumTimes(t) == IF t = <<>> THEN 0 ELSE t[1][2].time + SumTimes(Tail(t))

LastEvent == events[Len(events)]

\* C1: for a well-balanced event sequence the per-frame times of both reducers
\* add up to the sum of (close timestamp - open timestamp) over the matched pairs.
TimesSumToPairDurations ==
    WellBalanced => /\ SumTimes(tree) = PairSum
                    /\ SumValues(frame_times) = PairSum

\* C1 witness: a nested, well-balanced stream with non-zero durations was reduced.
NestedBalancedReduced ==
    /\ Len(events) = 4
    /\ WellBalanced
    /\ events[2].type = "O"
    /\ PairSum = 2

\* Matched Closes of c after which p is on top of the stack.
ClosesUnder(p, c) ==
    {j \in DOMAIN events : /\ Matched(j)
                           /\ events[j].frame = c
                           /\ Depth(j) > 0
                           /\ events[TopAfter(j)].frame = p}
TreeEdge(p, c) == Get(Get(tree, p, EmptyNode).children, c, 0)
ReportEdge(p, c) == Get(Get(call_relationships, p, <<>>), c, 0)

\* C2: in both build_call_tree variants the edge (p, c) holds the sum of the
\* durations of every matched Close of c that left p on top of the stack.
EdgesAccumulateDurations ==
    \A p \in Frames, c \in Frames :
        /\ TreeEdge(p, c) = SumDurations(ClosesUnder(p, c))
        /\ ReportEdge(p, c) = SumDurations(ClosesUnder(p, c))

\* C4: a Close processed on an empty stack changes no stack and no aggregate.
CloseOnEmptyStackIsNoOp ==
    [][(/\ Len(events') = Len(events) + 1
        /\ events'[Len(events')].type = "C"
        /\ stack = <<>> /\ an_stack = <<>> /\ cr_stack = <<>>)
       => UNCHANGED <<tree, stack, frame_times, frame_samples, an_stack,
                      call_relationships, cr_stack>>]_vars

\* C4 witness: a Close arrived on an empty stack after a pair had been reduced.
ClosedOnEmptyStack ==
    /\ Len(events) >= 3
    /\ IsClose(Len(events))
    /\ Depth(Len(events) - 1) = 0
    /\ tree # <<>>
    /\ frame_times # <<>>

\* C5: a Close whose frame differs from the top of a non-empty stack removes
\* exactly the top entry, adds no duration anywhere and keeps the entries below.
MismatchedClosePopsOnly ==
    [][(/\ Len(events') = Len(events) + 1
        /\ events'[Len(events')].type = "C"
        /\ stack # <<>> /\ an_stack # <<>> /\ cr_stack # <<>>
        /\ Top(stack)[1] # events'[Len(events')].frame
        /\ Top(an_stack)[1] # events'[Len(events')].frame
        /\ Top(cr_stack)[1] # events'[Len(events')].frame)
       => /\ stack' = Front(stack)
          /\ an_stack' = Front(an_stack)
          /\ cr_stack' = Front(cr_stack)
          /\ UNCHANGED <<tree, frame_times, frame_samples, call_relationships>>]_vars

\* C5 witness: a mismatched Close was taken with another entry left below the top.
MismatchedCloseTaken ==
    /\ Len(events) >= 3
    /\ IsClose(Len(events))
    /\ Depth(Len(events) - 1) > 1
    /\ events[OpenOf(Len(events))].frame # LastEvent.frame
    /\ Len(stack) = Depth(Len(events))
    /\ stack # <<>>

\* The matched Closes of frame f.
MatchedOf(f) == {j \in DOMAIN events : Matched(j) /\ events[j].frame = f}
\* The positions of the Opens that none of the first k events has closed or
\* taken off, oldest first.
RECURSIVE OpenPositions(_)
OpenPositions(k) ==
    IF k = 0 THEN <<>>
    ELSE LET before == OpenPositions(k - 1)
         IN  IF events[k].type = "O" THEN Append(before, k)
             ELSE IF before # <<>> THEN Front(before)
             ELSE <<>>
\* The Opens left over at the end of the stream, as stack entries.
Unclosed ==
    LET left == OpenPositions(Len(events))
    IN  [i \in DOMAIN left |-> <<events[left[i]].frame, events[left[i]].at>>]
\* The matched pairs of the stream: the Open, its Close, and the Open under it
\* (0 if there is none).
PairAt(j) ==
    LET before == OpenPositions(j - 1)
    IN  [open |-> IF before = <<>> THEN 0 ELSE Top(before),
         close |-> j,
         under |-> IF Len(before) > 1 THEN before[Len(before) - 1] ELSE 0]
Pairs ==
    {pair \in {PairAt(j) : j \in {i \in DOMAIN events : IsClose(i)}} :
        /\ pair.open # 0
        /\ events[pair.open].frame = events[pair.close].frame}
RECURSIVE SumPairs(_)
SumPairs(S) ==
    IF S = {} THEN 0
    ELSE LET pair == CHOOSE x \in S : TRUE
         IN  events[pair.close].at - events[pair.open].at + SumPairs(S \ {pair})

\* C18: whatever Opens are still on the stack, the time of every frame (in the
\* tree variant and in analyze_speedscope) and the duration of every edge of the
\* tree variant are the sums over the matched Closes alone; the Opens left over
\* stay on the stacks, and main runs on the result.
UnclosedOpenAddsNothing ==
    LET pairs == Pairs
        Of(f) == {pair \in pairs : events[pair.close].frame = f}
        Under(p, c) == {pair \in Of(c) : /\ pair.under # 0
                                         /\ events[pair.under].frame = p}
    IN  /\ stack = Unclosed
        /\ an_stack = Unclosed
        /\ \A f \in Frames :
              /\ Get(tree, f, EmptyNode).time = SumPairs(Of(f))
              /\ Get(frame_times, f, 0) = SumPairs(Of(f))
        /\ \A p \in Frames, c \in Frames :
              Get(Get(tree, p, EmptyNode).children, c, 0) = SumPairs(Under(p, c))

\* C18 witness: the stream ended, and main ran, with a frame opened at time 0
\* still on the stack at time 1, after a pair nested in it had been reduced.
EndedWithOpenFrame ==
    /\ pc = "done"
    /\ stack # <<>>
    /\ stack[1][2] = 0
    /\ LastEvent.at = 1
    /\ \E c \in Frames : Get(Get(tree, stack[1][1], EmptyNode).children, c, 0) > 0

\* The Opens of frame f in the stream.
OpensOf(f) == {j \in DOMAIN events : events[j].type = "O" /\ events[j].frame = f}

\* C19: after any stream, balanced or not, the sample counter of every frame is
\* the number of Opens of that frame, frames never opened have no counter, and
\* total_samples is the number of Opens of the stream.
SamplesCountOpens ==
    /\ \A f \in Frames : Get(frame_samples, f, 0) = Cardinality(OpensOf(f))
    /\ Keys(frame_samples) = {f \in Frames : OpensOf(f) # {}}
    /\ TotalSamples(frame_samples)
          = Cardinality({j \in DOMAIN events : events[j].type = "O"})

\* C19 witness: a frame was opened twice and closed once, its second Open was
\* never closed, and another Close matched no Open.
SampledUnbalanced ==
    /\ \E f \in Frames : /\ Get(frame_samples, f, 0) = 2
                          /\ Cardinality(MatchedOf(f)) = 1
    /\ \E j \in DOMAIN events : IsClose(j) /\ ~Matched(j)
    /\ an_stack # <<>>
    /\ TotalSamples(frame_samples) = 2

\* ------------------------------------------------------ properties of rendering
Lines == render.lines
ByPrintTree == render.fn = "print_tree"
ByPrintCallTree == render.fn = "print_call_tree"
NodeTime(f) == Get(tree, f, EmptyNode).time
NodeChildren(f) == Keys(Get(tree, f, EmptyNode).children)
CallChildren(f) == Keys(Get(call_relationships, f, <<>>))
HasLine(f) == \E i \in DOMAIN Lines : Lines[i].frame = f
HasLineAt(f, path) == \E i \in DOMAIN Lines : Lines[i].frame = f /\ Lines[i].path = path
Skipped(f) == InNames(frame_names, f) /\ ShouldSkipMethod(GetMethodName(f, frame_names))

\* C3: no line, of either renderer, is for a frame that is on the chain of
\* ancestors of the walk when the line is emitted.
NoLineForAncestor ==
    \A i \in DOMAIN Lines : Lines[i].frame \notin Range(Lines[i].path)

\* The frames reachable from f by one or more edges of the tree variant's graph.
RECURSIVE ReachableFrom(_, _)
ReachableFrom(S, n) ==
    IF n = 0 THEN S
    ELSE ReachableFrom(S \cup UNION {NodeChildren(x) : x \in S}, n - 1)
Descendants(f) == ReachableFrom(NodeChildren(f), Cardinality(Nodes))

\* The duration of f is below min_pct percent of total_time.
BelowThreshold(f) == NodeTime(f) * 100 < render.min_pct * render.total_time

\* C6 as stated: print_tree emits no line for a frame below the threshold nor for
\* any descendant of it in the call-relationship graph.
PrunedWithAllDescendants ==
    ByPrintTree =>
        \A f \in Nodes : BelowThreshold(f) =>
            \A d \in {f} \cup Descendants(f) : ~HasLine(d)

\* C6 as amended: print_tree emits no line for a frame below the threshold and,
\* unless the frame matches a skip pattern, no line beneath it, that is, no line
\* with the frame on its chain of ancestors.
PrunedWithSubtree ==
    ByPrintTree =>
        \A f \in Nodes : BelowThreshold(f) =>
            /\ ~HasLine(f)
            /\ ~Skipped(f) => \A i \in DOMAIN Lines : f \notin Range(Lines[i].path)

\* C6 witness: a child of the root was pruned with its subtree, while one of its
\* children has a line under another branch.
PrunedChildOfRoot ==
    /\ ByPrintTree
    /\ \E f \in NodeChildren(render.root), d \in Nodes :
          /\ f # render.root /\ d # f /\ d # render.root
          /\ BelowThreshold(f)
          /\ ~Skipped(f)
          /\ InNames(frame_names, f)
          /\ d \in NodeChildren(f)
          /\ HasLine(render.root)
          /\ HasLineAt(d, <<render.root>>)

\* C7: lines that are siblings (same level, under the same line) are in
\* non-increasing order of the duration they display.
SiblingsInDisplayedOrder ==
    \A i \in DOMAIN Lines, j \in DOMAIN Lines :
        (/\ i < j
         /\ Lines[i].depth = Lines[j].depth
         /\ \A k \in i .. j : Lines[k].depth >= Lines[i].depth)
        => Lines[i].time >= Lines[j].time

\* C8: the visited set of a call holds exactly the frames of the enclosing calls
\* (and, in print_tree, the frame of the call itself), every cycle break is on a
\* frame of that chain, and a frame that is a child both of the root and of
\* another child of the root has a line under both.
UnderBoth(r, b, d) == HasLineAt(d, <<r>>) /\ HasLineAt(d, <<r, b>>)
Unpruned ==
    /\ render.min_pct = 0
    /\ render.total_time > 0
    /\ ~render.raised
VisitedIsPerBranch ==
    /\ \A i \in DOMAIN Lines :
          Lines[i].visited = Range(Lines[i].path)
                             \cup (IF ByPrintTree THEN {Lines[i].frame} ELSE {})
    /\ \A c \in render.cuts : c.frame \in Range(c.path)
    /\ \A b \in Nodes, d \in Nodes :
          LET r == render.root IN
          (r # b /\ r # d /\ b # d /\ Unpruned) =>
              /\ (/\ ByPrintTree
                  /\ \A f \in {r, b, d} : InNames(frame_names, f) /\ ~Skipped(f)
                  /\ {b, d} \subseteq NodeChildren(r)
                  /\ d \in NodeChildren(b)) => UnderBoth(r, b, d)
              /\ (/\ ByPrintCallTree
                  /\ render.max_depth >= 2
                  /\ {b, d} \subseteq CallChildren(r)
                  /\ d \in CallChildren(b)) => UnderBoth(r, b, d)

\* C8 witness: print_tree rendered a frame under the root and under a sibling
\* of it, the sibling first.
RenderedUnderBothBranches ==
    /\ ByPrintTree
    /\ \E b \in Nodes, d \in Nodes :
          /\ render.root # b /\ render.root # d /\ b # d
          /\ UnderBoth(render.root, b, d)
          /\ Lines[2].frame = b

\* Line j is directly beneath line i: one level deeper, with only deeper lines
\* between the two.
IsChildLine(i, j) ==
    /\ i < j
    /\ Lines[j].depth = Lines[i].depth + 1
    /\ \A k \in (i + 1) .. (j - 1) : Lines[k].depth > Lines[i].depth
\* Line k is beneath line j.
IsBeneath(j, k) ==
    /\ j < k
    /\ \A m \in (j + 1) .. k : Lines[m].depth > Lines[j].depth
Connector(line) == line.prefix[Len(line.prefix)]

\* C12: among the lines directly beneath an emitted line, the last one carries
\* the terminal connector and the lines beneath it a blank in its column; every
\* other one carries the branching connector and the lines beneath it a vertical.
ConnectorsOfLastSurvivor ==
    \A i \in DOMAIN Lines, j \in DOMAIN Lines :
        IsChildLine(i, j) =>
            LET last == ~\E k \in DOMAIN Lines : k > j /\ IsChildLine(i, k)
                column == Len(Lines[j].prefix)
            IN  /\ Lines[j].prefix # <<>>
                /\ Connector(Lines[j]) = IF last THEN Terminal ELSE Branch
                /\ \A k \in DOMAIN Lines :
                      IsBeneath(j, k) =>
                          /\ Len(Lines[k].prefix) > column
                          /\ Lines[k].prefix[column] = IF last THEN Blank ELSE Vertical

\* C13: print_call_tree with maximum depth D emits lines at depths below D only,
\* makes no recursive call at a depth beyond D, whatever the graph, and returns
\* no line at all for D <= 0.
DepthIsBounded ==
    ByPrintCallTree =>
        /\ \A i \in DOMAIN Lines : Lines[i].depth < render.max_depth
        /\ \A c \in render.calls : c.path # <<>> => Len(c.path) <= render.max_depth
        /\ render.max_depth <= 0 => Lines = <<>>

\* C13 witness: on a cyclic graph print_call_tree emitted a line at the last
\* depth below the maximum and was stopped by the maximum on a frame that none
\* of the enclosing calls was for.
StoppedAtMaxDepth ==
    /\ ByPrintCallTree
    /\ render.max_depth = 2
    /\ \E i \in DOMAIN Lines : Lines[i].depth = 1
    /\ \E c \in render.calls : /\ Len(c.path) = 2
                                /\ c.frame \notin Range(c.path)
                                /\ CallChildren(c.frame) # {}
    /\ \E f \in Nodes : f \in CallChildren(f)

\* C14: print_tree emits no line for a frame that matches a skip pattern, and a
\* call for such a frame (one the cycle guard lets through) calls print_tree for
\* each of its children with its own depth and prefix; the child gets a line at
\* that depth, in the frame's place, unless the child is itself skipped, cut by
\* the cycle guard, unresolvable or below the threshold.
SkippedIsFlattened ==
    (ByPrintTree /\ ~render.raised) =>
        /\ \A i \in DOMAIN Lines :
              /\ ~Skipped(Lines[i].frame)
              /\ \A pattern \in SkipPatterns : ~Contains(Lines[i].name, pattern)
        /\ \A c \in render.calls :
              (Skipped(c.frame) /\ c.frame \notin Range(c.path)) =>
                  \A k \in NodeChildren(c.frame) :
                      LET here == Append(c.path, c.frame) IN
                      /\ Call(k, here, c.depth, c.prefix) \in render.calls
                      /\ (/\ InNames(frame_names, k)
                          /\ ~Skipped(k)
                          /\ k \notin Range(here)
                          /\ ~PctBelow(NodeTime(k), render.total_time, render.min_pct))
                         => \E i \in DOMAIN Lines : /\ Lines[i].frame = k
                                                    /\ Lines[i].path = here
                                                    /\ Lines[i].depth = c.depth

\* C14 witness: a skipped child of the root had two children: the root, which
\* the cycle guard cut, and another frame, which was rendered in the place of the
\* skipped one, directly beneath the root's line.
FlattenedUnderRoot ==
    /\ ByPrintTree
    /\ ~render.raised
    /\ \E s \in NodeChildren(render.root), a \in Nodes :
          /\ Skipped(s)
          /\ a \notin {s, render.root}
          /\ {a, render.root} \subseteq NodeChildren(s)
          /\ Call(render.root, <<render.root, s>>, 1, <<Blank>>) \in render.cuts
          /\ Len(Lines) = 2
          /\ Lines[2].frame = a
          /\ Lines[2].path = <<render.root, s>>
          /\ Lines[2].depth = 1
          /\ Lines[2].prefix = <<Terminal>>

GraphIds == Keys(tree) \cup UNION {NodeChildren(f) : f \in Keys(tree)}

\* C16: print_tree returns on every drawn graph, cyclic or not, and no call of
\* it is nested deeper than the number of frame ids of the graph plus one, the
\* frames of the enclosing calls being distinct frames of the graph; so the
\* recursion limit is not reached.
RecursionIsBounded ==
    ByPrintTree =>
        \A c \in render.calls :
            /\ Len(c.path) + 1 <= Cardinality(GraphIds) + 1
            /\ Len(c.path) < RecursionLimit
            /\ Cardinality(Range(c.path)) = Len(c.path)
            /\ Range(c.path) \subseteq GraphIds

\* C16 witness: print_tree walked a cycle through all the frames of the graph
\* and was stopped by the cycle guard at the deepest nesting the claim allows.
WalkedWholeCycle ==
    /\ ByPrintTree
    /\ Len(Lines) = Cardinality(GraphIds)
    /\ \E c \in render.cuts : /\ Len(c.path) = Cardinality(GraphIds)
                               /\ c.frame = render.root
    /\ \A f \in Nodes : f \notin NodeChildren(f)

\* C17: every line of print_call_tree, at every depth, is for an edge whose
\* percentage of total_time is at least min_pct.
ChildLinesMeetThreshold ==
    ByPrintCallTree =>
        \A i \in DOMAIN Lines :
            ~PctBelow(Lines[i].time, render.total_time, render.min_pct)

\* ------------------------------------------- properties of the reduced graphs
\* Frame c was opened, at some point of the stream, while p was on top of the
\* stack.
OpenedUnder(p, c) ==
    \E i \in DOMAIN events :
        /\ events[i].type = "O"
        /\ events[i].frame = c
        /\ LET before == OpenPositions(i - 1)
           IN  before # <<>> /\ events[Top(before)].frame = p

\* C20: after any stream, an edge (p, c) is in the graph of either
\* build_call_tree only if c was opened while p was on top of the stack; and the
\* entry under the one a matched Close takes off is the entry that was on top
\* when the closed frame was opened: the stacks hold the Opens left over.
EdgesOnlyUnderDirectParent ==
    /\ \A p \in Keys(tree) : \A c \in NodeChildren(p) : OpenedUnder(p, c)
    /\ \A p \in Keys(call_relationships) : \A c \in CallChildren(p) : OpenedUnder(p, c)
    /\ \A pair \in Pairs :
          LET before == OpenPositions(pair.open - 1)
          IN  pair.under = IF before = <<>> THEN 0 ELSE Top(before)
    /\ cr_stack = Unclosed
    /\ stack = cr_stack

\* C20 witness: both graphs hold an edge between two different frames after a
\* stream in which a Close took a different frame off the stack.
EdgeAfterMismatch ==
    /\ \E p \in Frames, c \in Frames :
          /\ p # c
          /\ c \in NodeChildren(p)
          /\ c \in CallChildren(p)
    /\ \E j \in DOMAIN events :
          IsClose(j) /\ Depth(j - 1) > 0 /\ ~Matched(j)

\* C21: after every event of any stream, balanced or not, the stack of
\* build_call_tree is the stack of the loop of analyze_speedscope, and for every
\* frame id the 'time' of the tree is the frame_times entry (0.0 where a
\* defaultdict has no key); a frame with a frame_times entry has a tree node.
ReducersAgree ==
    /\ stack = an_stack
    /\ \A f \in Frames : Get(tree, f, EmptyNode).time = Get(frame_times, f, 0)
    /\ Keys(frame_times) \subseteq Keys(tree)

\* C21 witness: both loops have credited a frame with a non-zero time after a
\* stream in which a Close took another frame off the stack and left an Open on
\* it.
AgreedOnUnbalanced ==
    /\ \E f \in Frames : /\ Get(tree, f, EmptyNode).time # 0
                         /\ Get(frame_times, f, 0) # 0
    /\ \E j \in DOMAIN events :
          IsClose(j) /\ Depth(j - 1) > 0 /\ ~Matched(j) /\ Depth(j) > 0

\* C22: in the tree that main renders from the root of find_primary_root with
\* the root's time as total_time, after a balanced stream with non-negative
\* durations, every line shows a time no greater than the root's time (at most
\* 100%), and every child line a time no greater than that of its parent line.
RenderedTimesWithinParent ==
    (/\ pc = "done"
     /\ ByPrintTree
     /\ WellBalanced
     /\ \A j \in DOMAIN events : IsClose(j) => DurationOf(j) >= 0) =>
        /\ render.total_time = root_time
        /\ \A i \in DOMAIN Lines : Lines[i].time <= root_time
        /\ \A i \in DOMAIN Lines, j \in DOMAIN Lines :
              IsChildLine(i, j) => Lines[j].time <= Lines[i].time

\* ------------------------------------------------ properties of root selection
Qualifying ==
    {f \in Keys(tree) :
        /\ InNames(frame_names, f)
        /\ Contains(NameOf(frame_names, f), NamespaceFilter)
        /\ HasBang(NameOf(frame_names, f))
        /\ ~ShouldSkipMethod(GetMethodName(f, frame_names))}

\* C9: when some frame qualifies, find_primary_root returns a qualifying frame
\* whose time is at least that of every qualifying frame.
RootIsBestQualifying ==
    (pc = "done" /\ Qualifying # {}) =>
        /\ root_idx \in Qualifying
        /\ \A q \in Qualifying : NodeTime(root_idx) >= NodeTime(q)

\* C10: when no frame qualifies, find_primary_root returns the sentinel and main
\* reports it on stderr and returns 1 without rendering a tree.
NoRootIsReported ==
    (pc = "done" /\ Qualifying = {}) =>
        /\ root_idx = None
        /\ exit_code = 1
        /\ stderr = "Error: No methods found in namespace"
        /\ render = NoRender

\* C10 witness: main ran on an empty event sequence, and on a tree that holds
\* frames of which none qualifies.
NoRootOnEmptyStream ==
    /\ pc = "done"
    /\ events = <<>>
    /\ tree = <<>>
    /\ exit_code = 1

\* --------------------------------------------- properties of the ranked sections
\* The entry of rank i of `ranked` is below the threshold.
RankBelow(ranked, total, i) == PctBelow(ranked[i][2], total, report.min_pct)
Emitted(section, i) == \E k \in DOMAIN section : section[k].rank = i
EmittedBefore(section, i) == Cardinality({k \in DOMAIN section : section[k].rank < i})
RankedAsStated(ranked, total, section) ==
    /\ \A i \in DOMAIN ranked :
          Emitted(section, i) <=> /\ (i <= 10 \/ ~RankBelow(ranked, total, i))
                                  /\ EmittedBefore(section, i) < report.top_n
    /\ Len(section) <= report.top_n

\* C11: in each ranked section the entry of rank i is emitted if and only if
\* (i <= 10 or its percentage >= min_pct) and fewer than top_n entries were
\* emitted before it; so no section has more than top_n entries.
RankedEmissionAsStated ==
    pc = "done" =>
        /\ RankedAsStated(results.sorted_by_time, results.total_time, report.by_time)
        /\ RankedAsStated(results.sorted_by_samples, results.total_samples,
                          report.by_samples)

====
